---- MODULE Spec2Model ----
(***************************************************************************)
(* Uptime monitor (server.js): the monitor registry, the per-monitor       *)
(* interval timers, the retrying probe checkOnce, the recovery sweep and   *)
(* the request handlers that mutate them.  Every action is one             *)
(* run-to-completion section of JavaScript between two awaits.             *)
(***************************************************************************)
EXTENDS Integers, Sequences, FiniteSets, TLC

\* ---------------------------------------------------------------- bounds
\* outside events in one behaviour: API requests, timer and sweep firings
\* that start a check, HTTP attempts that resolve or reject
MaxEvents == 3
\* alert callbacks registered before the monitors are loaded
MaxSinks == 3
\* entries of urls[] in one bulk request
MaxBulk == 2

\* ------------------------------------------------------ program constants
DEFAULT_INTERVAL_MS == 5000
MAX_RETRIES         == 3
HISTORY_CAP         == 200
MIN_INTERVAL_MS     == 2000
MIN_TIMEOUT_MS      == 2000
Null                == -1          \* JavaScript null / undefined in a numeric field
NoMsg               == "null"      \* JavaScript null / undefined in a message field
ErrMsg              == "timeout"   \* err.message of a transport failure
Undefined           == <<"undefined">>  \* a url the request body does not carry

VARIABLES
  phase,      \* "boot" until loadMonitors has run, then "running"
  heap,       \* monitor objects by id (an object outlives its registry entry)
  monitors,   \* keys of state.monitors
  timers,     \* state.timers: id -> interval the recorded handle was armed with
  armed,      \* id -> number of setInterval timers of that id not yet cleared
  probes,     \* checkOnce executions suspended on an await
  nprobes,    \* number of checkOnce executions started so far
  now,        \* Date.now()
  pendCreate, \* ids whose POST handler awaits saveMonitors
  pendUpdate, \* id -> number of PATCH handlers awaiting saveMonitors
  deleted,    \* ids removed by DELETE, each with the handlers then suspended on it
  alerts,     \* <<wasUp, nowUp, callbacks invoked>> of every triggerAlert call
  nev,        \* number of outside events so far
  store,      \* what the remote store and monitors.json hold when the process starts
  alertCallbacks  \* state.alertCallbacks: what each registered callback does

vars == <<phase, heap, monitors, timers, armed, probes, nprobes, now,
          pendCreate, pendUpdate, deleted, alerts, nev, store, alertCallbacks>>

\* ------------------------------------------------------------ pure helpers
\* JavaScript ToNumber on a status field: null compares as 0
ToNumber(s) == IF s = Null THEN 0 ELSE s

\* a classification that takes a status of null for up
IsUp_NullIsUp(s) == s = Null \/ (s >= 200 /\ s < 400)

\* res.status >= 200 && res.status < 400 ; monitor.lastStatus >= 200 && ...
IsUp(s) == ToNumber(s) >= 200 /\ ToNumber(s) < 400

\* a selection that leaves out a status of null
IsDown_SkipsNull(s) == s # Null /\ (s < 200 \/ s >= 400)

\* m.lastStatus < 200 || m.lastStatus >= 400
IsDown(s) == ToNumber(s) < 200 \/ ToNumber(s) >= 400

\* monitor.history.push(point); if (length > 200) monitor.history.shift()
PushHistory_NoShift(h, point) == Append(h, point)

PushHistory(h, point) ==
  LET pushed == Append(h, point)
  IN IF Len(pushed) > HISTORY_CAP THEN Tail(pushed) ELSE pushed

\* the point object built in checkOnce
Point(t, up, status, ms, attempt, forced, error) ==
  [t |-> t, up |-> up, status |-> status, ms |-> ms, attempt |-> attempt,
   forced |-> forced, error |-> error]

\* lines 240-244: consecutiveFailures after an HTTP response
NextFailures_AlwaysReset(cf, isUp) == 0

NextFailures(cf, isUp) == IF isUp THEN 0 ELSE cf + 1

\* an attempt with a response that leaves retryCount as it is
ApplyResponse_KeepsRetryCount(m, status, attempt, forced, t, started) ==
  [m EXCEPT !.lastStatus = status,
            !.lastLatency = t - started,
            !.lastChecked = t,
            !.lastError = NoMsg,
            !.consecutiveFailures = NextFailures(@, IsUp(status)),
            !.history = PushHistory(@, Point(t, IsUp(status), status,
                                             t - started, attempt, forced, NoMsg))]

\* an attempt with a response that writes the fields and pushes no point
ApplyResponse_NoPoint(m, status, attempt, forced, t, started) ==
  [m EXCEPT !.lastStatus = status,
            !.lastLatency = t - started,
            !.lastChecked = t,
            !.lastError = NoMsg,
            !.retryCount = 0,
            !.consecutiveFailures = NextFailures(@, IsUp(status))]

\* checkOnce, try branch, lines 218-247: the fields written by an attempt
\* that received an HTTP response
ApplyResponse(m, status, attempt, forced, t, started) ==
  [m EXCEPT !.lastStatus = status,
            !.lastLatency = t - started,
            !.lastChecked = t,
            !.lastError = NoMsg,
            !.retryCount = 0,
            !.consecutiveFailures = NextFailures(@, IsUp(status)),
            !.history = PushHistory(@, Point(t, IsUp(status), status,
                                             t - started, attempt, forced, NoMsg))]

\* checkOnce, catch branch, lines 263-288: only the last attempt writes
ApplyError_EveryAttempt(m, attempt, forced, t, started) ==
  [m EXCEPT !.lastStatus = 0,
            !.lastLatency = t - started,
            !.lastChecked = t,
            !.lastError = ErrMsg,
            !.retryCount = @ + 1,
            !.consecutiveFailures = @ + 1,
            !.history = PushHistory(@, Point(t, FALSE, 0, t - started,
                                             attempt, forced, ErrMsg))]

ApplyError(m, attempt, forced, t, started) ==
  IF attempt = MAX_RETRIES
  THEN [m EXCEPT !.lastStatus = 0,
                 !.lastLatency = t - started,
                 !.lastChecked = t,
                 !.lastError = ErrMsg,
                 !.retryCount = @ + 1,
                 !.consecutiveFailures = @ + 1,
                 !.history = PushHistory(@, Point(t, FALSE, 0, t - started,
                                                  attempt, forced, ErrMsg))]
  ELSE m

\* line 255: if (isUp || attempt === MAX_RETRIES) break
BreaksLoop_OnlyAtMax(isUp, attempt) == attempt = MAX_RETRIES

BreaksLoop(isUp, attempt) == isUp \/ attempt = MAX_RETRIES

\* line 250: if (wasUp !== isUp) triggerAlert(...)
AlertOnResponse(m, status) == IsUp(m.lastStatus) # IsUp(status)

\* lines 269, 291: on the last attempt, if (wasUp) triggerAlert(...)
AlertOnError_Always(m, attempt) == attempt = MAX_RETRIES

AlertOnError(m, attempt) == attempt = MAX_RETRIES /\ IsUp(m.lastStatus)

\* line 202: if (!monitor.enabled && !isForced) return
ShouldRun_Always(m, forced) == TRUE

ShouldRun(m, forced) == m.enabled \/ forced

\* lines 641-642 and 319-320: the monitors a sweep force-checks
DownMonitors_IgnoreEnabled == {id \in monitors : IsDown(heap[id].lastStatus)}

DownMonitors == {id \in monitors : heap[id].enabled /\ IsDown(heap[id].lastStatus)}

\* line 334: if (!m || !m.enabled) return
WillArm_NoLookup(id) == heap[id].enabled

WillArm(id) == id \in monitors /\ heap[id].enabled

\* lines 414-415: Number(intervalMs) || DEFAULT_INTERVAL_MS, floored at 2000
CreateInterval_NoFloor(x) ==
  IF x = Null \/ x = 0 THEN DEFAULT_INTERVAL_MS ELSE x

CreateInterval(x) ==
  LET n == IF x = Null \/ x = 0 THEN DEFAULT_INTERVAL_MS ELSE x
  IN IF n < MIN_INTERVAL_MS THEN MIN_INTERVAL_MS ELSE n

\* lines 497-500: an interval below 2000 is ignored
PatchInterval(old, x) == IF x # Null /\ x >= MIN_INTERVAL_MS THEN x ELSE old

\* lines 101, 140: Number(m.intervalMs) > 1000 ? Number(m.intervalMs) : DEFAULT
LoadInterval(x) == IF x # Null /\ x > 1000 THEN x ELSE DEFAULT_INTERVAL_MS

\* line 462: Number(intervalMs) || DEFAULT_INTERVAL_MS, with no floor
BulkInterval(x) == IF x = Null \/ x = 0 THEN DEFAULT_INTERVAL_MS ELSE x

\* ------------------------------------------------------------ URLs
\* a URL is the sequence of its characters
HttpPrefix  == <<"h", "t", "t", "p", ":", "/", "/">>
HttpsPrefix == <<"h", "t", "t", "p", "s", ":", "/", "/">>

\* the i flag of the regular expression, on the letters a scheme is made of
Lower(c) ==
  CASE c = "H" -> "h" [] c = "T" -> "t" [] c = "P" -> "p" [] c = "S" -> "s"
    [] OTHER -> c

RECURSIVE TrimStart(_)
TrimStart(u) ==
  IF u # << >> /\ Head(u) = " " THEN TrimStart(Tail(u)) ELSE u

RECURSIVE TrimEnd(_)
TrimEnd(u) ==
  IF u # << >> /\ u[Len(u)] = " " THEN TrimEnd(SubSeq(u, 1, Len(u) - 1)) ELSE u

\* String.prototype.trim
Trim(u) == TrimEnd(TrimStart(u))

StartsWith(u, prefix) ==
  /\ Len(u) >= Len(prefix)
  /\ \A i \in 1..Len(prefix) : u[i] = prefix[i]

\* /^https?:\/\//i.test(url)
HasScheme(u) ==
  LET low == [i \in 1..Len(u) |-> Lower(u[i])]
  IN StartsWith(low, HttpPrefix) \/ StartsWith(low, HttpsPrefix)

\* lines 410-413, 451-453, 494: trim, then prepend http:// unless a scheme is there
NormalizeUrl_NoPrefix(u) == Trim(u)

NormalizeUrl(u) ==
  LET t == Trim(u) IN IF HasScheme(t) THEN t ELSE HttpPrefix \o t

\* line 404: if (!url || typeof url !== 'string') return 400
CreateAccepts(u) == u # Undefined /\ u # << >>

\* lines 449-452: entries of urls[] that are no string or blank are skipped
BulkAccepts(u) == u # Undefined /\ Trim(u) # << >>

\* line 493: typeof url === 'string' && url.trim()
PatchUrl(old, u) ==
  IF u # Undefined /\ Trim(u) # << >> THEN NormalizeUrl(u) ELSE old

\* the URLs requests carry
BareUrl   == <<"a", ".", "b">>
PaddedUrl == <<" ">> \o BareUrl \o <<" ">>
HttpUrl   == HttpPrefix \o BareUrl
HttpsUrl  == <<" ">> \o HttpsPrefix \o BareUrl
UpperUrl  == <<"H", "T", "T", "P", ":", "/", "/">> \o BareUrl
NearUrl   == <<"h", "t", "p", ":", "/", "/">> \o BareUrl
BlankUrl  == <<" ", " ">>
Urls      == {BareUrl, PaddedUrl, HttpUrl, HttpsUrl, UpperUrl, NearUrl, BlankUrl,
              << >>, Undefined}

\* ------------------------------------------------------------ alerts
\* what a registered callback does when called: return, throw an Error, or
\* throw a value that has no message property (throw null)
SinkKinds == {"returns", "throwsError", "throwsNull"}

\* lines 47-53: forEach with try { callback(alert) } catch (e) { ... e.message }
\* reading e.message of null throws out of the catch block and out of forEach
RECURSIVE FirstEscape(_, _)
FirstEscape(cbs, i) ==
  IF i > Len(cbs) THEN 0
  ELSE IF cbs[i] = "throwsNull" THEN i
  ELSE FirstEscape(cbs, i + 1)

\* the exception leaves triggerAlert
Escapes(cbs) == FirstEscape(cbs, 1) # 0

\* the callbacks triggerAlert has called, in the order of the calls
Invoked(cbs) ==
  LET n == IF Escapes(cbs) THEN FirstEscape(cbs, 1) ELSE Len(cbs)
  IN [i \in 1..n |-> i]


\* ------------------------------------------------- what the store can hold
\* history as saveMonitors wrote it: n points taken at times 1..n, the last
\* one carrying the monitor's lastStatus
StoredHistory(n, lastStatus) ==
  [i \in 1..n |->
     LET s == IF i = n THEN lastStatus ELSE 200
     IN Point(i, IsUp(s), s, 1, 1, FALSE, NoMsg)]

StoredUp ==
  [url |-> HttpUrl, intervalMs |-> 5000, history |-> StoredHistory(2, 200),
   lastStatus |-> 200, lastLatency |-> 1, lastChecked |-> 2,
   enabled |-> TRUE, retryCount |-> 0, lastError |-> NoMsg,
   consecutiveFailures |-> 0]

StoredDown ==
  [url |-> HttpUrl, intervalMs |-> 2000, history |-> StoredHistory(HISTORY_CAP, 500),
   lastStatus |-> 500, lastLatency |-> 1, lastChecked |-> HISTORY_CAP,
   enabled |-> TRUE, retryCount |-> 0, lastError |-> NoMsg,
   consecutiveFailures |-> 1]

StoredOff ==
  [url |-> HttpUrl, intervalMs |-> 5000, history |-> StoredHistory(1, 500),
   lastStatus |-> 500, lastLatency |-> 1, lastChecked |-> 1,
   enabled |-> FALSE, retryCount |-> 0, lastError |-> NoMsg,
   consecutiveFailures |-> 1]

\* a monitor saved by its create handler and never checked since: the store
\* keeps no null and no empty array, lines 98-111 supply them on load
StoredNew ==
  [url |-> HttpUrl, intervalMs |-> 5000, history |-> << >>,
   lastStatus |-> Null, lastLatency |-> Null, lastChecked |-> Null,
   enabled |-> TRUE, retryCount |-> 0, lastError |-> NoMsg,
   consecutiveFailures |-> 0]

\* a monitor whose last check ended in a transport failure on attempt 3
StoredFailed ==
  [url |-> HttpUrl, intervalMs |-> 5000,
   history |-> <<Point(1, TRUE, 200, 1, 1, FALSE, NoMsg),
                 Point(2, FALSE, 0, 1, MAX_RETRIES, FALSE, ErrMsg)>>,
   lastStatus |-> 0, lastLatency |-> 1, lastChecked |-> 2,
   enabled |-> TRUE, retryCount |-> 1, lastError |-> ErrMsg,
   consecutiveFailures |-> 1]

\* the records a store holds, by the name of its contents
Contents(name) ==
  CASE name = "up"   -> <<StoredUp>>
    [] name = "down" -> <<StoredDown>>
    [] name = "off"  -> <<StoredOff>>
    [] name = "new"  -> <<StoredNew>>
    [] name = "failed" -> <<StoredFailed>>
    [] OTHER         -> << >>

\* the remote store and monitors.json when the process starts; a remote of
\* "error" is a GET that fails
Environments ==
  {[remote |-> r, file |-> "empty"] : r \in {"empty", "up", "down", "off", "new"}}
    \cup {[remote |-> "error", file |-> f] : f \in {"empty", "up"}}

\* firebaseGet, lines 59-67: the catch of line 63 turns a failed GET into
\* null, which holds no record
firebaseGet == IF store.remote = "error" THEN << >> ELSE Contents(store.remote)

\* line 117: the catch of loadMonitors runs only if line 92 throws, and
\* firebaseGet lets no exception out
GetThrows == FALSE

\* loadMonitorsFromFile, lines 130-159
loadMonitorsFromFile == Contents(store.file)

\* m.history.slice(-200)
Slice200(h) ==
  IF Len(h) > HISTORY_CAP THEN SubSeq(h, Len(h) - HISTORY_CAP + 1, Len(h)) ELSE h

\* loadMonitors, lines 97-111: the monitor object built from a stored record
LoadRecord(r) ==
  [url |-> r.url, intervalMs |-> LoadInterval(r.intervalMs), history |-> Slice200(r.history),
   lastStatus |-> r.lastStatus, lastLatency |-> r.lastLatency,
   lastChecked |-> r.lastChecked, enabled |-> r.enabled,
   retryCount |-> r.retryCount, lastError |-> r.lastError,
   consecutiveFailures |-> r.consecutiveFailures]

\* POST /api/monitors, lines 418-432
NewMonitor(url, intervalMs) ==
  [url |-> url, intervalMs |-> intervalMs, history |-> << >>,
   lastStatus |-> Null, lastLatency |-> Null, lastChecked |-> Null,
   enabled |-> TRUE, retryCount |-> 0, lastError |-> NoMsg,
   consecutiveFailures |-> 0]

\* ------------------------------------------------- checkOnce executions
InFlight(id) == {p \in probes : p.id = id}

\* a timeout of the whole interval, without the factor 0.8
Timeout_WholeInterval(intervalMs) ==
  IF intervalMs > MIN_TIMEOUT_MS THEN intervalMs ELSE MIN_TIMEOUT_MS

\* line 211: timeout: Math.max(2000, Math.floor(monitor.intervalMs * 0.8));
\* for an integer interval the double product has the floor of 8 * iv / 10
Timeout(intervalMs) ==
  LET scaled == (intervalMs * 8) \div 10
  IN IF scaled > MIN_TIMEOUT_MS THEN scaled ELSE MIN_TIMEOUT_MS

\* checkOnce up to its first await (lines 200-216); timeout is the one given
\* to the GET in flight; wasUp0 .. cut only record what the execution has
\* done and met so far (cut: the points it had appended when its monitor was
\* deleted or disabled, Null while neither has happened)
NewProbe(pid, id, m, forced, origin) ==
  [pid |-> pid, id |-> id, forced |-> forced, origin |-> origin,
   attempt |-> 1, pc |-> "http", started |-> now,
   timeout |-> Timeout(m.intervalMs),
   wasUp0 |-> IsUp(m.lastStatus), alerts |-> 0, fails |-> 0, points |-> 0,
   nowUp |-> FALSE, overlapped |-> InFlight(id) # {},
   cf0 |-> m.consecutiveFailures, cut |-> Null]

\* the executions in flight once monitor id has been deleted or disabled
\* (off) or enabled again
Marked(id, off) ==
  {[p EXCEPT !.cut = IF p.id # id THEN @
                     ELSE IF ~off THEN Null
                     ELSE IF @ = Null THEN p.points ELSE @] : p \in probes}

Rank(id, S) == Cardinality({j \in S : j <= id})

\* checkOnce without the return of line 202
StartProbes_Unguarded(S, h, forced, origin) ==
  {NewProbe(nprobes + Rank(id, S), id, h[id], forced, origin) : id \in S}

\* checkOnce(m, forced) called for every monitor of S in one section of code
StartProbes(S, h, forced, origin) ==
  {NewProbe(nprobes + Rank(id, S), id, h[id], forced, origin) :
     id \in {j \in S : ShouldRun(h[j], forced)}}

\* the executions in flight once those of new have started beside them
WithStarted(new) ==
  {[p EXCEPT !.overlapped = @ \/ \E q \in new : q.id = p.id] : p \in probes}
    \cup new

\* ------------------------------------------------------------ timers
\* stopTimer, lines 343-349
StopTimerTimers(id) == [j \in DOMAIN timers \ {id} |-> timers[j]]

\* a stopTimer that forgets the handle without clearInterval
StopTimerArmed_NoClear(id) == armed

StopTimerArmed(id) ==
  IF id \in DOMAIN timers THEN [armed EXCEPT ![id] = @ - 1] ELSE armed

stopTimer(id) ==
  /\ timers' = StopTimerTimers(id)
  /\ armed' = StopTimerArmed(id)

\* startTimer, lines 331-340
startTimer(id) ==
  IF WillArm(id)
  THEN LET new == StartProbes({id}, heap, FALSE, "immediate")
       IN /\ probes' = WithStarted(new)
          /\ nprobes' = nprobes + Cardinality(new)
          /\ timers' = (id :> heap[id].intervalMs) @@ StopTimerTimers(id)
          /\ armed' = [StopTimerArmed(id) EXCEPT ![id] = @ + 1]
  ELSE /\ stopTimer(id)
       /\ UNCHANGED <<probes, nprobes>>

\* ------------------------------------------------------------ Init
Init ==
  /\ phase = "boot"
  /\ heap = << >>
  /\ monitors = {}
  /\ timers = << >>
  /\ armed = << >>
  /\ probes = {}
  /\ nprobes = 0
  /\ now = HISTORY_CAP
  /\ pendCreate = {}
  /\ pendUpdate = << >>
  /\ deleted = {}
  /\ alerts = {}
  /\ nev = 0
  /\ store \in Environments
  /\ alertCallbacks = <<"returns">>

\* loadMonitors, lines 90-127: the records read become the registry and
\* every enabled monitor gets startTimer
loadMonitors ==
  /\ phase = "boot"
  /\ LET snap == IF GetThrows THEN loadMonitorsFromFile ELSE firebaseGet
         k    == Len(snap)
         h    == [id \in 1..k |-> LoadRecord(snap[id])]
         on   == {id \in 1..k : h[id].enabled}
         new  == StartProbes(on, h, FALSE, "immediate")
     IN /\ heap' = h
        /\ monitors' = 1..k
        /\ timers' = [id \in on |-> h[id].intervalMs]
        /\ armed' = [id \in 1..k |-> IF id \in on THEN 1 ELSE 0]
        /\ pendUpdate' = [id \in 1..k |-> 0]
        /\ probes' = new
        /\ nprobes' = Cardinality(new)
  /\ phase' = "running"
  /\ UNCHANGED <<nev, now, pendCreate, deleted, alerts, store, alertCallbacks>>

\* addAlertCallback, lines 30-32, called while the module is set up
addAlertCallback(kind) ==
  /\ phase = "boot"
  /\ Len(alertCallbacks) < MaxSinks
  /\ alertCallbacks' = Append(alertCallbacks, kind)
  /\ UNCHANGED <<phase, heap, monitors, timers, armed, probes, nprobes, now,
                 pendCreate, pendUpdate, deleted, alerts, nev, store>>

\* ------------------------------------------------------------ requests
\* app.listen has been called (line 631) and process.exit has not
Serving == phase \in {"running", "stopping"}

\* POST /api/monitors up to await saveMonitors(), lines 401-434; a request
\* whose url is missing or empty is answered 400 and changes nothing
Create(url, x) ==
  /\ Serving
  /\ nev < MaxEvents
  /\ nev' = nev + 1
  /\ IF CreateAccepts(url)
     THEN LET id == Cardinality(DOMAIN heap) + 1
          IN /\ heap' = (id :> NewMonitor(NormalizeUrl(url), CreateInterval(x)))
                          @@ heap
             /\ monitors' = monitors \cup {id}
             /\ armed' = (id :> 0) @@ armed
             /\ pendUpdate' = (id :> 0) @@ pendUpdate
             /\ pendCreate' = pendCreate \cup {id}
     ELSE UNCHANGED <<heap, monitors, armed, pendUpdate, pendCreate>>
  /\ UNCHANGED <<phase, timers, probes, nprobes, now, deleted, alerts,
                 store, alertCallbacks>>

\* POST /api/monitors after the save, lines 435-436
CreateSaved(id) ==
  /\ id \in pendCreate
  /\ startTimer(id)
  /\ pendCreate' = pendCreate \ {id}
  /\ UNCHANGED <<nev, phase, heap, monitors, now, pendUpdate, deleted, alerts,
                 store, alertCallbacks>>

\* POST /api/monitors/bulk, lines 440-479: every usable entry of urls[] becomes
\* a monitor and gets startTimer at once; nothing follows the save
BulkCreate(urls, x) ==
  /\ Serving
  /\ nev < MaxEvents
  /\ nev' = nev + 1
  /\ Len(urls) > 0
  /\ LET ok      == {i \in 1..Len(urls) : BulkAccepts(urls[i])}
         base    == Cardinality(DOMAIN heap)
         ids     == {base + Rank(i, ok) : i \in ok}
         from(id) == CHOOSE i \in ok : base + Rank(i, ok) = id
         h       == [id \in ids |->
                       NewMonitor(NormalizeUrl(urls[from(id)]), BulkInterval(x))]
                    @@ heap
         new     == StartProbes(ids, h, FALSE, "immediate")
     IN /\ heap' = h
        /\ monitors' = monitors \cup ids
        /\ timers' = [id \in ids |-> h[id].intervalMs] @@ timers
        /\ armed' = [id \in ids |-> 1] @@ armed
        /\ pendUpdate' = [id \in ids |-> 0] @@ pendUpdate
        /\ probes' = WithStarted(new)
        /\ nprobes' = nprobes + Cardinality(new)
  /\ UNCHANGED <<phase, now, pendCreate, deleted, alerts, store, alertCallbacks>>

\* PATCH /api/monitors/:id up to await saveMonitors(), lines 482-506
Update(id, url, iv, en) ==
  /\ Serving
  /\ nev < MaxEvents
  /\ nev' = nev + 1
  /\ id \in monitors
  /\ heap' = [heap EXCEPT ![id].url = PatchUrl(@, url),
                          ![id].intervalMs = PatchInterval(@, iv),
                          ![id].enabled = IF en = "undefined" THEN @
                                          ELSE en = "true"]
  /\ pendUpdate' = [pendUpdate EXCEPT ![id] = @ + 1]
  /\ probes' = IF en = "undefined" THEN probes ELSE Marked(id, en = "false")
  /\ UNCHANGED <<phase, monitors, timers, armed, nprobes, now,
                 pendCreate, deleted, alerts,
                 store, alertCallbacks>>

\* PATCH /api/monitors/:id after the save, lines 507-508
UpdateSaved(id) ==
  /\ pendUpdate[id] > 0
  /\ IF heap[id].enabled
     THEN startTimer(id)
     ELSE stopTimer(id) /\ UNCHANGED <<probes, nprobes>>
  /\ pendUpdate' = [pendUpdate EXCEPT ![id] = @ - 1]
  /\ UNCHANGED <<nev, phase, heap, monitors, now, pendCreate, deleted, alerts,
                 store, alertCallbacks>>

\* DELETE /api/monitors/:id, lines 512-519
Delete(id) ==
  /\ Serving
  /\ nev < MaxEvents
  /\ nev' = nev + 1
  /\ id \in monitors
  /\ stopTimer(id)
  /\ monitors' = monitors \ {id}
  /\ deleted' = deleted \cup
       {[id |-> id,
         pending |-> pendUpdate[id] + (IF id \in pendCreate THEN 1 ELSE 0)]}
  /\ probes' = Marked(id, TRUE)
  /\ UNCHANGED <<phase, heap, nprobes, now, pendCreate, pendUpdate,
                 alerts,
                 store, alertCallbacks>>

\* POST /api/monitors/:id/reset, lines 535-546
Reset(id) ==
  /\ Serving
  /\ nev < MaxEvents
  /\ nev' = nev + 1
  /\ id \in monitors
  /\ heap' = [heap EXCEPT ![id].history = << >>,
                          ![id].retryCount = 0,
                          ![id].consecutiveFailures = 0,
                          ![id].lastError = NoMsg]
  /\ UNCHANGED <<phase, monitors, timers, armed, probes, nprobes, now,
                 pendCreate, pendUpdate, deleted, alerts,
                 store, alertCallbacks>>

\* POST /api/monitors/:id/force-check -> forceCheck(id), lines 308-315
ForceCheck(id) ==
  /\ Serving
  /\ nev < MaxEvents
  /\ nev' = nev + 1
  /\ id \in monitors
  /\ LET new == StartProbes({id}, heap, TRUE, "manual")
     IN /\ probes' = WithStarted(new)
        /\ nprobes' = nprobes + Cardinality(new)
  /\ UNCHANGED <<phase, heap, monitors, timers, armed, now, pendCreate,
                 pendUpdate, deleted, alerts,
                 store, alertCallbacks>>

\* POST /api/monitors/force-check-down -> forceCheckAllDown, lines 318-328
ForceCheckAllDown ==
  /\ Serving
  /\ nev < MaxEvents
  /\ nev' = nev + 1
  /\ LET new == StartProbes(DownMonitors, heap, TRUE, "alldown")
     IN /\ probes' = WithStarted(new)
        /\ nprobes' = nprobes + Cardinality(new)
  /\ UNCHANGED <<phase, heap, monitors, timers, armed, now, pendCreate,
                 pendUpdate, deleted, alerts,
                 store, alertCallbacks>>

\* ------------------------------------------------------------ timers firing
\* the 30 s interval of lines 640-648
SweepTick ==
  /\ phase # "exited"
  /\ LET new == StartProbes(DownMonitors, heap, TRUE, "sweep")
     IN /\ new # {} => nev < MaxEvents
        /\ nev' = IF new # {} THEN nev + 1 ELSE nev
        /\ probes' = WithStarted(new)
        /\ nprobes' = nprobes + Cardinality(new)
  /\ UNCHANGED <<phase, heap, monitors, timers, armed, now, pendCreate,
                 pendUpdate, deleted, alerts,
                 store, alertCallbacks>>

\* a monitor's interval fires: () => checkOnce(m), line 338
TimerTick(id) ==
  /\ armed[id] > 0
  /\ LET new == StartProbes({id}, heap, FALSE, "timer")
     IN /\ new # {} => nev < MaxEvents
        /\ nev' = IF new # {} THEN nev + 1 ELSE nev
        /\ probes' = WithStarted(new)
        /\ nprobes' = nprobes + Cardinality(new)
  /\ UNCHANGED <<phase, heap, monitors, timers, armed, now, pendCreate,
                 pendUpdate, deleted, alerts,
                 store, alertCallbacks>>

\* ------------------------------------------------------------ checkOnce
\* axios.get resolved with a status: lines 218-260.  An exception that
\* leaves triggerAlert (line 251) is caught at line 262 like a failed GET.
AttemptResponse(p, status) ==
  /\ p \in probes
  /\ p.pc = "http"
  /\ nev < MaxEvents
  /\ nev' = nev + 1
  /\ now' = now + 1
  /\ LET m     == heap[p.id]
         isUp  == IsUp(status)
         fire  == AlertOnResponse(m, status)
         m1    == ApplyResponse(m, status, p.attempt, p.forced, now', p.started)
         esc   == fire /\ Escapes(alertCallbacks)
         m2    == IF esc
                  THEN ApplyError(m1, p.attempt, p.forced, now', p.started)
                  ELSE m1
         fire2 == esc /\ AlertOnError(m1, p.attempt)
         dies  == fire2 /\ Escapes(alertCallbacks)
         last  == IF esc THEN p.attempt = MAX_RETRIES
                  ELSE BreaksLoop(isUp, p.attempt)
         said  == (IF fire
                   THEN {<<IsUp(m.lastStatus), isUp, Invoked(alertCallbacks)>>}
                   ELSE {})
                  \cup
                  (IF fire2 THEN {<<TRUE, FALSE, Invoked(alertCallbacks)>>}
                   ELSE {})
     IN /\ heap' = [heap EXCEPT ![p.id] = m2]
        /\ alerts' = alerts \cup said
        /\ probes' = (probes \ {p}) \cup
                     (IF dies THEN {}
                      ELSE {[p EXCEPT !.pc = IF last THEN "save" ELSE "delay",
                                      !.alerts = @ + (IF fire THEN 1 ELSE 0)
                                                   + (IF fire2 THEN 1 ELSE 0),
                                      !.fails = IF esc THEN @ + 1 ELSE @,
                                      !.points = IF m2 # m1 THEN @ + 2 ELSE @ + 1,
                                      !.nowUp = IsUp(m2.lastStatus)]})
  /\ UNCHANGED <<phase, monitors, timers, armed, nprobes, pendCreate,
                 pendUpdate, deleted, store, alertCallbacks>>

\* axios.get rejected (timeout, DNS, refused): lines 262-300.  An exception
\* that leaves triggerAlert (line 292) leaves checkOnce before line 304.
AttemptError(p) ==
  /\ p \in probes
  /\ p.pc = "http"
  /\ nev < MaxEvents
  /\ nev' = nev + 1
  /\ now' = now + 1
  /\ LET m    == heap[p.id]
         fire == AlertOnError(m, p.attempt)
         dies == fire /\ Escapes(alertCallbacks)
         last == p.attempt = MAX_RETRIES
         m2   == ApplyError(m, p.attempt, p.forced, now', p.started)
     IN /\ heap' = [heap EXCEPT ![p.id] = m2]
        /\ alerts' = IF fire
                     THEN alerts \cup
                            {<<IsUp(m.lastStatus), FALSE, Invoked(alertCallbacks)>>}
                     ELSE alerts
        /\ probes' = (probes \ {p}) \cup
                     (IF dies THEN {}
                      ELSE {[p EXCEPT !.pc = IF last THEN "save" ELSE "delay",
                                      !.alerts = IF fire THEN @ + 1 ELSE @,
                                      !.fails = @ + 1,
                                      !.points = IF m2.history # m.history
                                                 THEN @ + 1 ELSE @,
                                      !.nowUp = FALSE]})
  /\ UNCHANGED <<phase, monitors, timers, armed, nprobes, pendCreate,
                 pendUpdate, deleted, store, alertCallbacks>>

\* the RETRY_DELAY_MS timeout of line 260 / 298 elapsed: next iteration
DelayElapsed(p) ==
  /\ p \in probes
  /\ p.pc = "delay"
  /\ probes' = (probes \ {p}) \cup
               {[p EXCEPT !.pc = "http", !.attempt = @ + 1,
                          !.timeout = Timeout(heap[p.id].intervalMs)]}
  /\ UNCHANGED <<nev, phase, heap, monitors, timers, armed, nprobes, now,
                 pendCreate, pendUpdate, deleted, alerts,
                 store, alertCallbacks>>

\* await saveMonitors() of line 304 returned: checkOnce is over
SaveDone(p) ==
  /\ p \in probes
  /\ p.pc = "save"
  /\ probes' = probes \ {p}
  /\ UNCHANGED <<nev, phase, heap, monitors, timers, armed, nprobes, now,
                 pendCreate, pendUpdate, deleted, alerts,
                 store, alertCallbacks>>

\* ------------------------------------------------------------ shutdown
\* SIGINT / SIGTERM up to await saveMonitors(), lines 651-653 and 656-658
Signal ==
  /\ phase = "running"
  /\ phase' = "stopping"
  /\ UNCHANGED <<heap, monitors, timers, armed, probes, nprobes, now,
                 pendCreate, pendUpdate, deleted, alerts, nev, store,
                 alertCallbacks>>

\* process.exit(0), lines 654 and 659: timers and suspended code are gone
Exit ==
  /\ phase = "stopping"
  /\ phase' = "exited"
  /\ probes' = {}
  /\ timers' = << >>
  /\ armed' = [id \in DOMAIN armed |-> 0]
  /\ pendCreate' = {}
  /\ pendUpdate' = [id \in DOMAIN pendUpdate |-> 0]
  /\ UNCHANGED <<heap, monitors, nprobes, now, deleted, alerts, nev, store,
                 alertCallbacks>>

\* ------------------------------------------------------------ inputs
Statuses        == {200, 500}
CreateIntervals == {Null, 500}
\* a PATCH body: intervalMs and enabled, either may be absent
Patches == {[url |-> Undefined, intervalMs |-> Null, enabled |-> "true"],
            [url |-> Undefined, intervalMs |-> Null, enabled |-> "false"],
            [url |-> Undefined, intervalMs |-> 500,  enabled |-> "undefined"],
            [url |-> Undefined, intervalMs |-> 3000, enabled |-> "undefined"]}

Next ==
  \/ loadMonitors
  \/ \E x \in CreateIntervals : Create(BareUrl, x)
  \/ \E id \in DOMAIN heap : CreateSaved(id)
  \/ \E id \in DOMAIN heap : \E b \in Patches : Update(id, b.url, b.intervalMs, b.enabled)
  \/ \E id \in DOMAIN heap : UpdateSaved(id)
  \/ \E id \in DOMAIN heap : Delete(id)
  \/ \E id \in DOMAIN heap : Reset(id)
  \/ \E id \in DOMAIN heap : ForceCheck(id)
  \/ ForceCheckAllDown
  \/ SweepTick
  \/ \E id \in DOMAIN heap : TimerTick(id)
  \/ \E p \in probes : \E s \in Statuses : AttemptResponse(p, s)
  \/ \E p \in probes : AttemptError(p)
  \/ \E p \in probes : DelayElapsed(p)
  \/ \E p \in probes : SaveDone(p)

Spec == Init /\ [][Next]_vars

\* ---------------------------------------------- the process is told to stop
ShutdownNext ==
  \/ Next
  \/ Signal
  \/ Exit

ShutdownSpec == Init /\ [][ShutdownNext]_vars

\* ---------------------------------------------- requests and timers that end
\* every HTTP attempt resolves or rejects (its timeout fires), every retry
\* delay elapses and every save returns
LiveSpec ==
  /\ Spec
  /\ WF_vars(\E p \in probes :
               \/ \E s \in Statuses : AttemptResponse(p, s)
               \/ AttemptError(p))
  /\ WF_vars(\E p \in probes : DelayElapsed(p))
  /\ WF_vars(\E p \in probes : SaveDone(p))

\* ---------------------------------------------- the registry's handlers
\* request bodies of POST /api/monitors: every URL, and every interval
CreateBodies ==
  {[url |-> u, intervalMs |-> Null] : u \in Urls}
    \cup {[url |-> BareUrl, intervalMs |-> x] : x \in {0, 500, 1999, 3000}}

\* request bodies of POST /api/monitors/bulk
BulkUrls   == {PaddedUrl, UpperUrl, BlankUrl}
BulkBodies ==
  {[urls |-> us, intervalMs |-> Null] :
     us \in UNION {[1..n -> BulkUrls] : n \in 1..MaxBulk}}
    \cup {[urls |-> <<BareUrl>>, intervalMs |-> 500]}

\* request bodies of PATCH /api/monitors/:id
PatchBodies ==
  Patches \cup
    {[url |-> u, intervalMs |-> Null, enabled |-> "undefined"] :
       u \in {PaddedUrl, HttpsUrl, UpperUrl, BlankUrl}}

\* the handlers that put a monitor into the registry or change its URL or
\* interval, with every request body above
RegistryNext ==
  \/ loadMonitors
  \/ \E b \in CreateBodies : Create(b.url, b.intervalMs)
  \/ \E id \in DOMAIN heap : CreateSaved(id)
  \/ \E b \in BulkBodies : BulkCreate(b.urls, b.intervalMs)
  \/ \E id \in DOMAIN heap : \E b \in PatchBodies :
       Update(id, b.url, b.intervalMs, b.enabled)
  \/ \E id \in DOMAIN heap : UpdateSaved(id)

RegistrySpec == Init /\ [][RegistryNext]_vars

\* ---------------------------------------------- checks with more callbacks
\* callbacks are registered, the monitors are loaded and their checks run
SinkNext ==
  \/ \E kind \in SinkKinds : addAlertCallback(kind)
  \/ loadMonitors
  \/ \E id \in DOMAIN heap : TimerTick(id)
  \/ \E p \in probes : \E s \in Statuses : AttemptResponse(p, s)
  \/ \E p \in probes : AttemptError(p)
  \/ \E p \in probes : DelayElapsed(p)
  \/ \E p \in probes : SaveDone(p)

SinkSpec == Init /\ [][SinkNext]_vars

\* ------------------------------------------- checks and retryCount
\* the process starts over a store whose monitor was last seen failing, up
\* or not at all
RetryEnvironments ==
  {[remote |-> r, file |-> "empty"] : r \in {"failed", "up", "new"}}

RetryInit ==
  /\ phase = "boot"
  /\ heap = << >>
  /\ monitors = {}
  /\ timers = << >>
  /\ armed = << >>
  /\ probes = {}
  /\ nprobes = 0
  /\ now = HISTORY_CAP
  /\ pendCreate = {}
  /\ pendUpdate = << >>
  /\ deleted = {}
  /\ alerts = {}
  /\ nev = 0
  /\ store \in RetryEnvironments
  /\ alertCallbacks = <<"returns">>

\* the monitors are loaded or created, checked by their intervals and reset
RetryNext ==
  \/ loadMonitors
  \/ Create(BareUrl, Null)
  \/ \E id \in pendCreate : CreateSaved(id)
  \/ \E id \in monitors : Reset(id)
  \/ \E id \in DOMAIN heap : TimerTick(id)
  \/ \E p \in probes : \E s \in Statuses : AttemptResponse(p, s)
  \/ \E p \in probes : AttemptError(p)
  \/ \E p \in probes : DelayElapsed(p)
  \/ \E p \in probes : SaveDone(p)

RetrySpec == RetryInit /\ [][RetryNext]_vars

TypeOK ==
  /\ phase \in {"boot", "running", "stopping", "exited"}
  /\ store \in Environments \cup RetryEnvironments
  /\ Len(alertCallbacks) \in 1..MaxSinks
  /\ monitors \subseteq DOMAIN heap
  /\ DOMAIN armed = DOMAIN heap
  /\ DOMAIN pendUpdate = DOMAIN heap
  /\ DOMAIN timers \subseteq DOMAIN heap
    /\ nev \in 0..MaxEvents


\* ------------------------------------------------------------ steps
\* the checkOnce executions a step starts
Started == {q \in probes' : q.pid > nprobes}

\* probe p finishes an HTTP attempt in this step and becomes q
Completes(p, q) ==
  /\ p \in probes /\ q \in probes'
  /\ q.pid = p.pid
  /\ p.pc = "http" /\ q.pc # "http"

\* the attempt Completes(p, q) finishes was a transport failure
Failed(p, q) == q.fails = p.fails + 1

\* ------------------------------------------------------------ claims

\* C1: for every monitor at most one checkOnce execution is in flight; a tick
\* that fires while the previous check has not returned starts no second one.
C1_SingleFlight ==
  \A id \in DOMAIN heap : Cardinality(InFlight(id)) <= 1

\* C2: history never holds more than 200 points, and an append to a full
\* history removes the oldest point and puts the new one last.
C2_HistoryCap ==
  [][/\ \A id \in DOMAIN heap' : Len(heap'[id].history) <= HISTORY_CAP
     /\ \A p \in probes : \A q \in probes' :
          (Completes(p, q) /\ q.points = p.points + 1) =>
            LET h  == heap[p.id].history
                h2 == heap'[p.id].history
            IN /\ h2[Len(h2)].t = now'
               /\ h2[Len(h2)].attempt = p.attempt
               /\ IF Len(h) = HISTORY_CAP
                  THEN /\ Len(h2) = HISTORY_CAP
                       /\ \A i \in 1..(HISTORY_CAP - 1) : h2[i] = h[i + 1]
                  ELSE /\ Len(h2) = Len(h) + 1
                       /\ \A i \in 1..Len(h) : h2[i] = h[i]]_vars

\* a full history whose oldest stored point has been evicted by a new one
C2_Witness ==
  \E id \in DOMAIN heap :
    LET h == heap[id].history
    IN /\ Len(h) = HISTORY_CAP
       /\ h[1].t = 2
       /\ h[HISTORY_CAP].t > HISTORY_CAP

\* C3: a probe emits an alert iff the classification before the probe differs
\* from the one of its terminal attempt, and never more than one alert
\* (stated for the probes that ran with no other check of their monitor in
\* flight, so that it does not rest on C1).
C3_AlertIffTransition ==
  \A p \in probes :
    ~p.overlapped =>
      /\ p.alerts <= 1
      /\ p.pc = "save" => (p.alerts = 1 <=> p.wasUp0 # p.nowUp)

\* C4: triggerAlert is never called with wasUp = nowUp, and a non-up result
\* that follows a non-up result emits no alert.
C4_NoAlertOnRepeat ==
  [][/\ \A a \in alerts' : a[1] # a[2]
     /\ \A p \in probes : \A q \in probes' :
          (Completes(p, q) /\ ~q.nowUp /\ ~IsUp(heap[p.id].lastStatus)) =>
            /\ q.alerts = p.alerts
            /\ alerts' = alerts]_vars

\* a probe that started down, recorded two or more non-up results and alerted
\* nobody
C4_Witness ==
  \E p \in probes :
    /\ ~p.wasUp0 /\ ~p.nowUp
    /\ p.points >= 2
    /\ p.alerts = 0
    /\ ~IsUp(heap[p.id].lastStatus)

\* C5: after a terminal up response consecutiveFailures is 0, after a non-up
\* terminal attempt it is positive, and no non-up result lowers it.
C5_FailuresReset ==
  [][\A p \in probes : \A q \in probes' :
       Completes(p, q) =>
         LET cf  == heap[p.id].consecutiveFailures
             cf2 == heap'[p.id].consecutiveFailures
         IN /\ (q.pc = "save" /\ q.nowUp) => cf2 = 0
            /\ (q.pc = "save" /\ ~q.nowUp) => cf2 > 0
            /\ ~q.nowUp => cf2 >= cf]_vars

\* a monitor that was down with failures counted has just been seen up
C5_Witness ==
  \E p \in probes :
    /\ p.pc = "save" /\ p.nowUp /\ ~p.wasUp0
    /\ heap[p.id].consecutiveFailures = 0
    /\ \E i \in 1..Len(heap[p.id].history) :
         ~heap[p.id].history[i].up

\* C6: a probe whose attempts all fail makes 3 attempts; the first two write
\* nothing, the third sets lastStatus 0, adds 1 to retryCount, sets lastError
\* and appends one point (attempt 3, down, status 0, error set).
C6_AllAttemptsFail ==
  [][\A p \in probes : \A q \in probes' :
       (Completes(p, q) /\ Failed(p, q)) =>
         LET m  == heap[p.id]
             m2 == heap'[p.id]
             pt == m2.history[Len(m2.history)]
         IN IF p.attempt < MAX_RETRIES
            THEN /\ m2 = m
                 /\ q.pc = "delay"
                 /\ q.points = p.points
            ELSE /\ p.attempt = 3
                 /\ q.pc = "save"
                 /\ m2.lastStatus = 0
                 /\ m2.retryCount = m.retryCount + 1
                 /\ m2.lastError = ErrMsg
                 /\ q.points = p.points + 1
                 /\ pt.attempt = 3 /\ ~pt.up /\ pt.status = 0
                 /\ pt.error = ErrMsg
                 /\ q.fails = 3 => q.points = 1]_vars

\* a probe has failed three times and left status 0 and one retry counted
C6_Witness ==
  \E p \in probes :
    /\ p.pc = "save" /\ p.fails = 3 /\ p.points = 1
    /\ heap[p.id].lastStatus = 0
    /\ heap[p.id].retryCount = 1
    /\ heap[p.id].lastError = ErrMsg


\* C7 as stated: once enabled is false no check of the monitor starts and no
\* history point is appended to it until it is enabled again.
C7_NoCheckWhileDisabled ==
  [][\A id \in DOMAIN heap :
       ~heap[id].enabled =>
         /\ \A q \in Started : q.id # id
         /\ \/ heap'[id].history = heap[id].history
            \/ heap'[id].history = << >>]_vars

\* C7 as amended: while enabled is false no timer tick, sweep tick or
\* force-check-all-down starts a check of the monitor; only the force-check
\* of that one monitor does.
C7_OnlyManualWhileDisabled ==
  [][\A q \in Started :
       ~heap'[q.id].enabled => (q.origin = "manual" /\ q.forced)]_vars

\* a disabled monitor whose timer is still armed (its PATCH handler awaits the
\* save) has a forced check in flight
C7_Witness ==
  \E p \in probes :
    /\ ~heap[p.id].enabled
    /\ armed[p.id] > 0
    /\ p.origin = "manual"

\* C8: a sweep tick starts a forced probe for exactly the enabled monitors
\* whose lastStatus is outside [200,400) and changes no monitor; the probes
\* it started write to no monitor but their own.
C8_SweepTargets ==
  [][/\ (\E q \in Started : q.origin = "sweep") =>
          /\ {q.id : q \in Started} =
               {id \in monitors :
                  heap[id].enabled /\ ~IsUp(heap[id].lastStatus)}
          /\ \A q \in Started : q.forced /\ q.origin = "sweep"
          /\ heap' = heap
     /\ \A p \in probes : \A q \in probes' :
          (Completes(p, q) /\ p.origin = "sweep") =>
            \A id \in DOMAIN heap \ {p.id} : heap'[id] = heap[id]]_vars

\* a sweep has started a probe while an enabled monitor that is up has none
C8_Witness ==
  /\ \E p \in probes : p.origin = "sweep" /\ p.pc = "http" /\ p.attempt = 1
  /\ \E id \in monitors :
       /\ heap[id].enabled /\ IsUp(heap[id].lastStatus)
       /\ \A p \in probes : p.origin = "sweep" => p.id # id

\* C9: a sweep tick or force-check-all-down never starts a forced probe for a
\* monitor that has a check in flight.
C9_SweepSkipsInFlight ==
  [][\A q \in Started :
       q.origin \in {"sweep", "alldown"} => InFlight(q.id) = {}]_vars

\* C10: every armed timer and every recorded handle belongs to a monitor that
\* is in the registry, and no timer of a deleted id is armed.
C10_NoDanglingTimer ==
  /\ \A id \in DOMAIN heap :
       (armed[id] > 0 \/ id \in DOMAIN timers) => id \in monitors
  /\ \A d \in deleted : armed[d.id] = 0 /\ d.id \notin monitors

\* a monitor was deleted while a handler of it awaited its save, and that
\* handler has since resumed and called startTimer on the enabled monitor
C10_Witness ==
  \E d \in deleted :
    /\ d.pending > 0
    /\ pendUpdate[d.id] = 0
    /\ d.id \notin pendCreate
    /\ heap[d.id].enabled


\* C11: every monitor in the registry has intervalMs >= 2000, whichever of
\* create, bulk-create, update or load put it there or changed it last.
C11_IntervalFloor ==
  \A id \in monitors : heap[id].intervalMs >= MIN_INTERVAL_MS

\* C12 as stated: create with any intervalMs below 2000 is accepted and stores
\* 2000, create with no intervalMs stores 5000, and no interval makes create
\* reject.
C12_CreateBelowFloor ==
  [][\A b \in CreateBodies :
       LET id == Cardinality(DOMAIN heap) + 1
       IN (CreateAccepts(b.url) /\ Create(b.url, b.intervalMs)) =>
            /\ id \in monitors'
            /\ b.intervalMs = Null =>
                 heap'[id].intervalMs = DEFAULT_INTERVAL_MS
            /\ (b.intervalMs # Null /\ b.intervalMs < MIN_INTERVAL_MS) =>
                 heap'[id].intervalMs = MIN_INTERVAL_MS]_vars

\* C12 as amended: an intervalMs below 2000 other than 0 stores 2000; no
\* intervalMs, or 0, stores the default 5000; a larger one is stored as it
\* is; no interval makes create reject.
C12_CreateClamps ==
  [][\A b \in CreateBodies :
       LET id == Cardinality(DOMAIN heap) + 1
       IN (CreateAccepts(b.url) /\ Create(b.url, b.intervalMs)) =>
            /\ id \in monitors'
            /\ (b.intervalMs = Null \/ b.intervalMs = 0) =>
                 heap'[id].intervalMs = DEFAULT_INTERVAL_MS
            /\ (b.intervalMs # Null /\ b.intervalMs # 0
                  /\ b.intervalMs < MIN_INTERVAL_MS) =>
                 heap'[id].intervalMs = MIN_INTERVAL_MS
            /\ b.intervalMs >= MIN_INTERVAL_MS =>
                 heap'[id].intervalMs = b.intervalMs]_vars

\* two monitors created and not yet saved, one holding the floor its request
\* was raised to and one the default
C12_Witness ==
  /\ \E id \in pendCreate : heap[id].intervalMs = MIN_INTERVAL_MS
  /\ \E id \in pendCreate : heap[id].intervalMs = DEFAULT_INTERVAL_MS

\* C13: update with an intervalMs below 2000 sets the monitor's intervalMs to
\* 2000; it is neither rejected nor is the previous interval kept.
C13_UpdateClamps ==
  [][\A id \in monitors : \A b \in Patches :
       (/\ b.intervalMs # Null
        /\ b.intervalMs < MIN_INTERVAL_MS
        /\ Update(id, b.url, b.intervalMs, b.enabled)) =>
         heap'[id].intervalMs = MIN_INTERVAL_MS]_vars


\* the URL begins with http:// or https:// as written, in lower case
BeginsWithScheme(u) == StartsWith(u, HttpPrefix) \/ StartsWith(u, HttpsPrefix)

\* the URL a request's url must be stored as: trimmed, with http:// put in
\* front unless it begins with http:// or https:// in any letter case
Expected(u) == IF HasScheme(Trim(u)) THEN Trim(u) ELSE HttpPrefix \o Trim(u)

\* the URLs the monitors made by a step hold, in the order they were made
MadeUrls ==
  LET ids == DOMAIN heap' \ DOMAIN heap
  IN [i \in 1..Cardinality(ids) |-> heap'[Cardinality(DOMAIN heap) + i].url]

\* the entries of a bulk request that are strings and not blank, in order
RECURSIVE Usable(_)
Usable(us) ==
  IF us = << >> THEN << >>
  ELSE IF us[1] # Undefined /\ Trim(us[1]) # << >>
       THEN <<us[1]>> \o Usable(Tail(us))
       ELSE Usable(Tail(us))

\* C14 as stated: every monitor stored by create, bulk-create or update has a
\* URL that begins with http:// or https://.
C14_UrlPrefix ==
  \A id \in monitors : BeginsWithScheme(heap[id].url)

\* C14 as amended: every stored URL begins with http:// or https:// in some
\* letter case; create, bulk-create and update store a non-blank URL trimmed,
\* with http:// in front if it has no such prefix and as it is if it has one,
\* and reject none.
C14_UrlScheme ==
  [][/\ \A id \in monitors' : HasScheme(heap'[id].url)
     /\ \A b \in CreateBodies :
          (b.url # Undefined /\ Trim(b.url) # << >>
             /\ Create(b.url, b.intervalMs)) =>
            MadeUrls = <<Expected(b.url)>>
     /\ \A b \in BulkBodies :
          BulkCreate(b.urls, b.intervalMs) =>
            MadeUrls = [i \in 1..Len(Usable(b.urls)) |-> Expected(Usable(b.urls)[i])]
     /\ \A id \in monitors : \A b \in PatchBodies :
          (b.url # Undefined /\ Trim(b.url) # << >>
             /\ Update(id, b.url, b.intervalMs, b.enabled)) =>
            heap'[id].url = Expected(b.url)]_vars

\* the registry holds a URL that got http:// put in front, one that came
\* with https:// and was only trimmed, and one kept with its upper-case scheme
C14_Witness ==
  /\ \E id \in monitors : heap[id].url = HttpPrefix \o BareUrl
  /\ \E id \in monitors : heap[id].url = HttpsPrefix \o BareUrl
  /\ \E id \in monitors : heap[id].url = UpperUrl


\* C15: an alert reaches every registered callback once, in registration
\* order, whatever an earlier callback throws; a throwing callback does not
\* make the check fail: the point and the fields of the response stay as
\* written, the loop stops or retries as the response says, and the check
\* goes on to its save.
C15_SinksIsolated ==
  [][/\ \A a \in alerts' :
          a[3] = [i \in 1..Len(alertCallbacks) |-> i]
     /\ \A p \in probes : \A s \in Statuses :
          AttemptResponse(p, s) =>
            /\ heap'[p.id] = ApplyResponse(heap[p.id], s, p.attempt, p.forced,
                                           now', p.started)
            /\ \E q \in probes' :
                 /\ q.pid = p.pid
                 /\ q.pc = IF BreaksLoop(IsUp(s), p.attempt) THEN "save"
                           ELSE "delay"
     /\ \A p \in probes :
          AttemptError(p) => \E q \in probes' : q.pid = p.pid]_vars


\* C16: when the GET of the remote store fails at startup, the monitors of
\* monitors.json are in the registry once loadMonitors is through, and the
\* enabled ones have their timer.
C16_FallbackLoads ==
  [][(phase = "boot" /\ phase' = "running" /\ store.remote = "error") =>
       LET file == Contents(store.file)
       IN /\ Cardinality(monitors') = Len(file)
          /\ \A i \in 1..Len(file) :
               \E id \in monitors' :
                 /\ heap'[id].url = file[i].url
                 /\ file[i].enabled =>
                      (id \in DOMAIN timers' /\ armed'[id] > 0)]_vars

\* C17: on SIGINT or SIGTERM every monitor timer is cancelled before the
\* final save begins, and no timer tick or sweep starts a check between the
\* signal and the exit.
C17_TimersCancelled ==
  [][/\ phase' = "stopping" => \A id \in DOMAIN armed' : armed'[id] = 0
     /\ phase = "stopping" =>
          \A q \in Started : q.origin \notin {"timer", "sweep"}]_vars

\* the check waits for an HTTP attempt that no further event answers
Unanswered(p) == p.pc = "http" /\ nev = MaxEvents

\* C18: a check makes at most MAX_RETRIES = 3 attempts, makes no attempt
\* after an up response or after its loop has ended, and reaches its end:
\* in the long run no check is in flight but those left unanswered.
C18_ProbeTerminates ==
  /\ [](\A p \in probes : p.attempt \in 1..MAX_RETRIES)
  /\ [][\A p \in probes : \A q \in probes' :
          /\ (Completes(p, q) /\ q.nowUp) => q.pc = "save"
          /\ (q.pid = p.pid /\ p.pc = "save") =>
               (q.pc = "save" /\ q.attempt = p.attempt)]_vars
  /\ <>[](\A p \in probes : Unanswered(p))

\* a check that failed twice and then got an up response at its third
\* attempt has ended
C18_Witness ==
  /\ probes = {}
  /\ nprobes = 1
  /\ \E id \in monitors :
       LET h == heap[id].history
       IN h # << >> /\ h[Len(h)].attempt = MAX_RETRIES /\ h[Len(h)].up

\* C19: an attempt that is followed by a retry changes none of lastStatus,
\* lastLatency and lastChecked (stated for the checks that ran with no other
\* check of their monitor in flight).
C19_OnlyTerminalWrites ==
  [][\A p \in probes : \A q \in probes' :
       (Completes(p, q) /\ q.pc = "delay" /\ ~q.overlapped) =>
         /\ heap'[p.id].lastStatus = heap[p.id].lastStatus
         /\ heap'[p.id].lastLatency = heap[p.id].lastLatency
         /\ heap'[p.id].lastChecked = heap[p.id].lastChecked]_vars

\* C20: a check whose terminal result is non-up has raised
\* consecutiveFailures by exactly 1, however many of its attempts were down
\* or failed (stated for the checks that ran with no other check of their
\* monitor in flight).
C20_OneFailurePerProbe ==
  \A p \in probes :
    (p.pc = "save" /\ ~p.nowUp /\ ~p.overlapped) =>
      heap[p.id].consecutiveFailures = p.cf0 + 1


\* C21: once PATCH has changed a monitor's intervalMs or enabled flag, no
\* tick of the interval armed with the settings of before fires: whenever
\* a monitor's interval fires and starts a check, the monitor is enabled and
\* the interval is the one armed with the monitor's present intervalMs
C21_NoStaleTick ==
  [][\A q \in Started :
       q.origin = "timer" =>
         /\ heap[q.id].enabled
         /\ q.id \in DOMAIN timers
         /\ timers[q.id] = heap[q.id].intervalMs]_vars

\* C22: a check in flight when its monitor is deleted or disabled runs to
\* completion, appends at most one history point from then on, and neither
\* its attempts nor its end arm or change a timer
C22_OneFinalPoint ==
  [][\A p \in probes :
       p.cut # Null =>
         /\ p.points <= p.cut + 1
         /\ p.pc # "save" => \E q \in probes' : q.pid = p.pid
         /\ (\A q \in probes' : q.pid # p.pid) \/ (\E q \in probes' : Completes(p, q))
              => UNCHANGED <<timers, armed>>]_vars

\* C23: for every interval of at least 2000 ms the timeout of an attempt,
\* max(2000, floor(intervalMs * 0.8)), is strictly below the interval
C23_TimeoutBelowInterval ==
  \A id \in DOMAIN heap :
    heap[id].intervalMs >= MIN_INTERVAL_MS =>
      Timeout(heap[id].intervalMs) < heap[id].intervalMs

\* intervals of at least 2000 ms around the points where the timeout changes
\* its shape: the floor of 2000, the interval of 2500 whose 0.8 is 2000, the
\* default and a minute
Intervals ==
  (MIN_INTERVAL_MS..(MIN_INTERVAL_MS + 5)) \cup (2495..2505)
    \cup {3000, DEFAULT_INTERVAL_MS, 60000}

\* C23 as the code has it: the timeout never exceeds an interval of at least
\* 2000 ms, is strictly below every interval above 2000 ms and equals the
\* interval at exactly 2000 ms; every GET in flight carries at least 2000 ms
C23_TimeoutAtMostInterval ==
  /\ \A iv \in Intervals :
       /\ Timeout(iv) <= iv
       /\ Timeout(iv) < iv <=> iv > MIN_INTERVAL_MS
  /\ \A id \in DOMAIN heap :
       LET iv == heap[id].intervalMs
       IN iv >= MIN_INTERVAL_MS =>
            /\ Timeout(iv) <= iv
            /\ Timeout(iv) < iv <=> iv > MIN_INTERVAL_MS
  /\ \A p \in probes : p.timeout >= MIN_TIMEOUT_MS

\* a GET is in flight whose timeout is the whole 2000 ms interval of its
\* monitor
C23_Witness ==
  \E p \in probes :
    /\ p.pc = "http"
    /\ heap[p.id].intervalMs = MIN_INTERVAL_MS
    /\ p.timeout = Timeout(heap[p.id].intervalMs)
    /\ p.timeout = heap[p.id].intervalMs

\* C24: the history points of two checks of one monitor never interleave:
\* the points of a check are contiguous and ahead of every point of a check
\* that started later, so when a check appends a point no check of the same
\* monitor that started after it has appended one yet
C24_NoInterleaving ==
  [][\A p \in probes : \A q \in probes' :
       Completes(p, q) /\ q.points > p.points =>
         \A r \in probes :
           r.id = p.id /\ r.pid > p.pid => r.points = 0]_vars

\* C25: scheduling and checking never wait on the persistence store: while
\* the write of a create or update handler is outstanding the monitor's timer
\* is already reconciled (armed with the present interval if the monitor is
\* enabled, cancelled if not), and no check that has finished its attempts
\* is held in flight by the write that follows them
C25_NoWaitOnStore ==
  /\ \A id \in pendCreate :
       WillArm(id) => id \in DOMAIN timers /\ armed[id] > 0
  /\ \A id \in monitors :
       pendUpdate[id] > 0 =>
         IF heap[id].enabled
         THEN id \in DOMAIN timers /\ timers[id] = heap[id].intervalMs
         ELSE id \notin DOMAIN timers
  /\ \A p \in probes : p.pc # "save"

\* C26: for every monitor id at most one interval is armed, and an interval
\* is armed exactly if its handle is the one state.timers records for the id:
\* no call of startTimer leaves an earlier interval running untracked
C26_OneTimerPerMonitor ==
  \A id \in DOMAIN armed :
    /\ armed[id] <= 1
    /\ armed[id] = 1 <=> id \in DOMAIN timers

\* startTimer has run twice for one monitor (two immediate checks of it are
\* in flight) and one interval is armed for it
C26_Witness ==
  \E p \in probes : \E q \in probes :
    /\ p.id = q.id /\ p.pid < q.pid
    /\ p.origin = "immediate" /\ q.origin = "immediate"
    /\ armed[p.id] = 1

\* C27: a tick of a monitor's interval that fires while the monitor's enabled
\* flag is false (PATCH has set it and still awaits its save before
\* stopTimer) starts nothing: no HTTP attempt, no history point, no field
\* change, no alert and no write, the whole state is as before
C27_DisabledTickIsNoOp ==
  [][\A id \in DOMAIN heap :
       ~heap[id].enabled /\ TimerTick(id) => UNCHANGED vars]_vars

\* the window: the monitor is disabled, the PATCH that disabled it awaits its
\* save, the interval is still armed and can fire
C27_Witness ==
  \E id \in monitors :
    /\ ~heap[id].enabled
    /\ pendUpdate[id] > 0
    /\ id \in DOMAIN timers /\ armed[id] > 0
    /\ ENABLED TimerTick(id)

\* C28: a monitor never checked (lastStatus null) counts as not up: the
\* attempt that records its first result emits one alert, with wasUp false,
\* if and only if that result is up; a first result that is down or a
\* transport failure emits no alert
C28_FirstResultAlert ==
  /\ ~IsUp(Null)
  /\ [][\A p \in probes : \A q \in probes' :
          /\ Completes(p, q)
          /\ heap[p.id].lastStatus = Null
          /\ heap'[p.id].lastStatus # Null
          => IF IsUp(heap'[p.id].lastStatus)
             THEN /\ q.alerts = p.alerts + 1
                  /\ <<FALSE, TRUE, Invoked(alertCallbacks)>> \in alerts'
                  /\ alerts' \ alerts
                       \subseteq {<<FALSE, TRUE, Invoked(alertCallbacks)>>}
             ELSE /\ q.alerts = p.alerts
                  /\ alerts' = alerts]_vars

\* the first result of a never checked monitor was a transport failure on
\* attempt 3 and nothing has ever been alerted
C28_Witness ==
  \E p \in probes :
    /\ p.pc = "save" /\ p.fails = MAX_RETRIES /\ p.cf0 = 0 /\ ~p.overlapped
    /\ heap[p.id].lastStatus = 0
    /\ Len(heap[p.id].history) = 1
    /\ alerts = {}

\* C29: an enabled monitor that has never completed a check (lastStatus
\* null) is selected like a down one: every sweep tick and every
\* force-check-all-down starts a forced check of it, also while its first
\* scheduled check is in flight
C29_NeverCheckedIsSwept ==
  /\ IsDown(Null)
  /\ [](\A id \in monitors :
         heap[id].enabled /\ heap[id].lastStatus = Null => id \in DownMonitors)
  /\ [][(\E q \in Started : q.origin \in {"sweep", "alldown"}) =>
          \A id \in monitors :
            heap[id].enabled /\ heap[id].lastStatus = Null =>
              \E q \in Started :
                q.id = id /\ q.forced /\ q.pc = "http" /\ q.attempt = 1]_vars

\* a sweep's forced check runs beside the first scheduled check of a monitor
\* that has no result yet
C29_Witness ==
  \E p \in probes : \E q \in probes :
    /\ p.id = q.id /\ p.id \in monitors
    /\ heap[p.id].enabled /\ heap[p.id].lastStatus = Null
    /\ p.origin = "immediate" /\ ~p.forced /\ p.pc = "http" /\ p.attempt = 1
    /\ q.origin = "sweep" /\ q.forced /\ q.pid > p.pid

\* C30: a check that runs to completion appends between 1 and 3 history
\* points: every attempt that got an HTTP response appends one, a transport
\* failure appends one only on attempt 3; each point carries the number of
\* its attempt, above the numbers of the points the check appended before,
\* and the last one is the terminal attempt's, with the status lastStatus has
\* when that attempt finishes
C30_PointsPerProbe ==
  [][\A p \in probes : \A q \in probes' :
       Completes(p, q) =>
         LET h    == heap[p.id].history
             h2   == heap'[p.id].history
             last == h2[Len(h2)]
             appends == Failed(p, q) => p.attempt = MAX_RETRIES
         IN /\ p.points < p.attempt
            /\ q.points = p.points + (IF appends THEN 1 ELSE 0)
            /\ IF appends
               THEN /\ h2 = IF Len(h) < HISTORY_CAP THEN Append(h, last)
                             ELSE Append(Tail(h), last)
                    /\ last.attempt = p.attempt
                    /\ last.t = now'
                    /\ last.status = heap'[p.id].lastStatus
                    /\ Failed(p, q) <=> last.status = 0
               ELSE h2 = h
            /\ q.pc = "save" =>
                 /\ q.points \in 1..MAX_RETRIES
                 /\ appends]_vars

\* a check has finished after three answered attempts: its three points are
\* the last of history, numbered 1, 2, 3, the last with lastStatus
C30_Witness ==
  \E p \in probes :
    /\ p.pc = "save" /\ p.points = MAX_RETRIES /\ ~p.overlapped
    /\ LET h == heap[p.id].history
           n == Len(h)
       IN /\ n >= MAX_RETRIES
          /\ \A k \in 1..MAX_RETRIES : h[n - MAX_RETRIES + k].attempt = k
          /\ h[n].status = heap[p.id].lastStatus
          /\ h[n].status # 0

\* the points at the end of history h that record a transport failure
RECURSIVE TrailingFailures(_)
TrailingFailures(h) ==
  IF h = << >> \/ h[Len(h)].status # 0 THEN 0
  ELSE 1 + TrailingFailures(SubSeq(h, 1, Len(h) - 1))

\* C31: every attempt that receives an HTTP response sets retryCount to 0,
\* only a transport failure on attempt 3 adds 1 to it, and nothing else but
\* a reset touches it; so retryCount is the number of checks that ended in a
\* transport failure since the monitor's last HTTP response, reset or
\* creation, which history shows as its trailing points of status 0
C31_RetryCount ==
  /\ [](\A id \in DOMAIN heap :
          heap[id].retryCount = TrailingFailures(heap[id].history))
  /\ [][/\ \A p \in probes : \A q \in probes' :
             Completes(p, q) =>
               heap'[p.id].retryCount =
                 IF ~Failed(p, q) THEN 0
                 ELSE IF p.attempt = MAX_RETRIES
                      THEN heap[p.id].retryCount + 1
                      ELSE heap[p.id].retryCount
        /\ \A id \in DOMAIN heap :
             heap'[id].retryCount # heap[id].retryCount =>
               \/ \E p \in probes : \E q \in probes' :
                    p.id = id /\ Completes(p, q)
               \/ heap'[id].retryCount = 0 /\ heap'[id].history = << >>]_vars

\* a monitor stored after one failed check has failed a second one: its
\* retryCount is 2 and history ends with the two failures
C31_Witness ==
  \E p \in probes :
    /\ p.pc = "save" /\ p.fails = MAX_RETRIES /\ ~p.overlapped
    /\ heap[p.id].retryCount = 2
    /\ TrailingFailures(heap[p.id].history) = 2

====
